---- MODULE Spec2Model ----
(***************************************************************************)
(* minigrep (src/src/lib.rs): Config::build, run, search and               *)
(* search_case_insensitive.                                                *)
(*                                                                         *)
(* A string is a sequence of characters; a character is a one-token TLA+   *)
(* string.  The characters of the search alphabet are                      *)
(*   "a"  LATIN SMALL LETTER A          "A"  LATIN CAPITAL LETTER A        *)
(*   SIGMA  GREEK CAPITAL LETTER SIGMA  sigma  GREEK SMALL LETTER SIGMA    *)
(*   fsigma GREEK SMALL LETTER FINAL SIGMA                                 *)
(*   LF  line feed                      CR  carriage return                *)
(***************************************************************************)
EXTENDS Integers, Sequences, FiniteSets, TLC

VARIABLES
    args,          \* Config::build: the argument iterator's items
    env,           \* Config::build: state of IGNORE_CASE in the environment
    buildResult,   \* Config::build: the returned Result (or not yet called)
    query,         \* search / search_case_insensitive: parameter query
    contents,      \* search / search_case_insensitive: parameter contents
    called,        \* which of the two search functions have been applied
    results,       \* the Vec<&str> search returned
    resultsCI,     \* the Vec<&str> search_case_insensitive returned
    config,        \* run: the Config passed in
    fs,            \* run: what fs::read_to_string yields for each path
    pc,            \* run: position in the function body
    runResults,    \* run: local `results`
    cursor,        \* run: position of the `for line in results` loop
    stdout,        \* run: the writes made to standard output, in order
    runReturn      \* run: the returned Result

vars == <<args, env, buildResult, query, contents, called, results, resultsCI,
          config, fs, pc, runResults, cursor, stdout, runReturn>>

buildVars == <<args, env, buildResult>>
searchVars == <<query, contents, called, results, resultsCI>>
runVars == <<config, fs, pc, runResults, cursor, stdout, runReturn>>

----------------------------------------------------------------------------
(* Bounds *)

MaxArgs == 4
MaxContentsLen == 4
MaxQueryLen == 2
MaxFileLen == 3

----------------------------------------------------------------------------
(* Characters and strings *)

LF == "LF"
CR == "CR"
SIGMA == "SIGMA"
sigma == "sigma"
fsigma == "fsigma"

\* The characters file contents are drawn from.
SearchChars == {"a", "A", SIGMA, LF, CR}

\* The characters queries are drawn from.
QueryChars == {"a", "A", SIGMA, LF}

RECURSIVE SeqsUpTo(_, _)
SeqsUpTo(S, n) ==
    IF n = 0 THEN {<<>>}
    ELSE LET shorter == SeqsUpTo(S, n - 1)
         IN shorter \cup {Append(s, x) : s \in shorter, x \in S}

----------------------------------------------------------------------------
(* Config::build *)

DashI == <<"-", "i">>

ErrQuery == "Didn't get a query string"
ErrFilePath == "Didn't get a file path"

\* The argument values the model draws from: the flag, the empty string,
\* two ordinary words, and a word that merely starts with the flag.
ArgValues == {DashI, <<>>, <<"a">>, <<"A">>, <<"-", "i", "a">>}

\* IGNORE_CASE in the process environment: absent, present with the empty
\* string, present with valid Unicode text, present with bytes that are not
\* valid Unicode.
EnvStates == {"unset", "empty", "text", "not_unicode"}

\* env::var("IGNORE_CASE").is_ok(): env::var returns Err(NotPresent) for an
\* absent variable and Err(NotUnicode) for a value that is not valid Unicode.
EnvVarIsOk(e) == e \in {"empty", "text"}

\* One call of Filter::next on `args.filter(|arg| ...)`: items are pulled from
\* the underlying iterator until the closure returns true; each "-i" pulled on
\* the way sets ignore_case.  Items behind the returned one are not touched.
RECURSIVE FilterNext(_)
FilterNext(it) ==
    IF it.rest = <<>>
    THEN [some |-> FALSE, val |-> <<>>, rest |-> <<>>,
          ignore_case |-> it.ignore_case]
    ELSE IF Head(it.rest) = DashI
    THEN FilterNext([rest |-> Tail(it.rest), ignore_case |-> TRUE])
    ELSE [some |-> TRUE, val |-> Head(it.rest), rest |-> Tail(it.rest),
          ignore_case |-> it.ignore_case]

Ok(c) == [ok |-> TRUE, config |-> c, err |-> ""]
Err(msg) == [ok |-> FALSE,
             config |-> [query |-> <<>>, file_path |-> <<>>,
                         ignore_case |-> FALSE],
             err |-> msg]

\* A plausible slip: a missing file path defaults to the empty string
\* (unwrap_or_default) instead of being an error.
BuildOfDefaulting(a, e) ==
    LET it0 == [rest |-> a, ignore_case |-> FALSE]
        name == FilterNext(it0)
        q == FilterNext(name)
        f == FilterNext(q)
    IN IF ~q.some THEN Err(ErrQuery)
       ELSE Ok([query |-> q.val, file_path |-> f.val,
                ignore_case |-> f.ignore_case \/ EnvVarIsOk(e)])

\* Config::build
BuildOf(a, e) ==
    LET it0 == [rest |-> a, ignore_case |-> FALSE]
        name == FilterNext(it0)
        q == FilterNext(name)
        f == FilterNext(q)
    IN IF ~q.some THEN Err(ErrQuery)
       ELSE IF ~f.some THEN Err(ErrFilePath)
       ELSE Ok([query |-> q.val, file_path |-> f.val,
                ignore_case |-> f.ignore_case \/ EnvVarIsOk(e)])

NotCalled == [ok |-> FALSE,
              config |-> [query |-> <<>>, file_path |-> <<>>,
                          ignore_case |-> FALSE],
              err |-> "not called"]

----------------------------------------------------------------------------
(* str::contains, str::to_lowercase, str::lines *)

\* line.contains(query): query occurs in line as a contiguous run.
Contains(line, q) ==
    \E i \in 0..(Len(line) - Len(q)) : SubSeq(line, i + 1, i + Len(q)) = q

Reverse(s) == [i \in 1..Len(s) |-> s[Len(s) + 1 - i]]

IsCased(c) == c \in {"a", "A", SIGMA, sigma, fsigma}

\* None of the characters of the alphabet is case-ignorable (that class is
\* combining marks, apostrophes, full stops and the like).
IsCaseIgnorable(c) == c \in {"'", "."}

\* case_ignorable_then_cased of the standard library: after skipping the
\* case-ignorable characters, is the next character a cased letter?
RECURSIVE CaseIgnorableThenCased(_)
CaseIgnorableThenCased(s) ==
    IF s = <<>> THEN FALSE
    ELSE IF IsCaseIgnorable(Head(s)) THEN CaseIgnorableThenCased(Tail(s))
    ELSE IsCased(Head(s))

\* str::to_lowercase: character by character, except that a capital sigma
\* becomes a final sigma when a cased letter precedes it and none follows it.
LowerChar(s, i) ==
    CASE s[i] = "A" -> "a"
      [] s[i] = SIGMA ->
            IF /\ CaseIgnorableThenCased(Reverse(SubSeq(s, 1, i - 1)))
               /\ ~CaseIgnorableThenCased(SubSeq(s, i + 1, Len(s)))
            THEN fsigma ELSE sigma
      [] OTHER -> s[i]

ToLowercase(s) == [i \in 1..Len(s) |-> LowerChar(s, i)]

\* str::split_inclusive('\n'): the pieces end with their line feed; the text
\* after the last line feed is a piece only when it is not empty.
RECURSIVE SplitInclusive(_, _)
SplitInclusive(s, cur) ==
    IF s = <<>> THEN (IF cur = <<>> THEN <<>> ELSE <<cur>>)
    ELSE IF Head(s) = LF
    THEN <<Append(cur, LF)>> \o SplitInclusive(Tail(s), <<>>)
    ELSE SplitInclusive(Tail(s), Append(cur, Head(s)))

\* The map of str::lines: strip one trailing "\n", and then, only if that was
\* there, one trailing "\r".
StripTerminator(piece) ==
    IF piece = <<>> \/ piece[Len(piece)] # LF THEN piece
    ELSE LET l == SubSeq(piece, 1, Len(piece) - 1)
         IN IF l = <<>> \/ l[Len(l)] # CR THEN l
            ELSE SubSeq(l, 1, Len(l) - 1)

\* A plausible slip: contents.split('\n') in place of contents.lines(), which
\* yields a final empty piece after a trailing line feed and for empty text.
RECURSIVE SplitOnLF(_, _)
SplitOnLF(s, cur) ==
    IF s = <<>> THEN <<cur>>
    ELSE IF Head(s) = LF THEN <<cur>> \o SplitOnLF(Tail(s), <<>>)
    ELSE SplitOnLF(Tail(s), Append(cur, Head(s)))

LinesBySplit(c) == SplitOnLF(c, <<>>)

\* contents.lines()
Lines(c) ==
    LET pieces == SplitInclusive(c, <<>>)
    IN [i \in 1..Len(pieces) |-> StripTerminator(pieces[i])]

----------------------------------------------------------------------------
(* search, search_case_insensitive *)

\* .filter(|line| line.contains(query)).collect(): the lines are visited in
\* order and each one that passes is pushed onto the vector.
RECURSIVE FilterCollect(_, _, _)
FilterCollect(ls, q, acc) ==
    IF ls = <<>> THEN acc
    ELSE FilterCollect(Tail(ls), q,
                       IF Contains(Head(ls), q) THEN Append(acc, Head(ls))
                       ELSE acc)

\* .filter(|line| line.to_lowercase().contains(&query)).collect(): the test
\* is on a lowercased copy, the line pushed is the original.
RECURSIVE FilterCollectLower(_, _, _)
FilterCollectLower(ls, q, acc) ==
    IF ls = <<>> THEN acc
    ELSE FilterCollectLower(Tail(ls), q,
                            IF Contains(ToLowercase(Head(ls)), q)
                            THEN Append(acc, Head(ls))
                            ELSE acc)

\* A plausible slip: the test is line.starts_with(query).
RECURSIVE FilterCollectPrefix(_, _, _)
FilterCollectPrefix(ls, q, acc) ==
    IF ls = <<>> THEN acc
    ELSE FilterCollectPrefix(Tail(ls), q,
                             IF /\ Len(q) <= Len(Head(ls))
                                /\ SubSeq(Head(ls), 1, Len(q)) = q
                             THEN Append(acc, Head(ls))
                             ELSE acc)

searchStartsWith(q, c) == FilterCollectPrefix(Lines(c), q, <<>>)

search(q, c) == FilterCollect(Lines(c), q, <<>>)

\* A plausible slip: the query is not lowercased before the scan.
searchQueryNotLowered(q, c) == FilterCollectLower(Lines(c), q, <<>>)

search_case_insensitive(q, c) ==
    LET lowered == ToLowercase(q)
    IN FilterCollectLower(Lines(c), lowered, <<>>)

----------------------------------------------------------------------------
(* run *)

\* The paths a Config may name.  Only the first can exist in the modelled
\* file system; the second never does.
PoemPath == <<"a">>
AbsentPath == <<"A">>
FilePaths == {PoemPath, AbsentPath}

\* What fs::read_to_string(path) yields: the text, or an I/O error (no such
\* file, no permission, bytes that are not UTF-8).
Unreadable == [readable |-> FALSE, text |-> <<>>]
Readable(t) == [readable |-> TRUE, text |-> t]

\* A plausible slip: the two branches of the dispatch swapped.
RunDispatchSwapped(cfg, text) ==
    IF cfg.ignore_case
    THEN search(cfg.query, text)
    ELSE search_case_insensitive(cfg.query, text)

\* let results = if config.ignore_case { ... } else { ... };
RunDispatch(cfg, text) ==
    IF cfg.ignore_case
    THEN search_case_insensitive(cfg.query, text)
    ELSE search(cfg.query, text)

\* println!("{line}"): one write of the line followed by a line feed.
Println(out, line) == Append(out, Append(line, LF))

----------------------------------------------------------------------------
(* Values of the variables a specification does not use *)

NoConfig == [query |-> <<>>, file_path |-> AbsentPath, ignore_case |-> FALSE]

BuildIdle ==
    /\ args = <<>>
    /\ env = "unset"
    /\ buildResult = NotCalled

SearchIdle ==
    /\ query = <<>>
    /\ contents = <<>>
    /\ called = {}
    /\ results = <<>>
    /\ resultsCI = <<>>

RunIdle ==
    /\ config = NoConfig
    /\ fs = [p \in FilePaths |-> Unreadable]
    /\ pc = "idle"
    /\ runResults = <<>>
    /\ cursor = 0
    /\ stdout = <<>>
    /\ runReturn = "none"

----------------------------------------------------------------------------
(* Config::build applied to every bounded argument list and environment *)

InitBuild ==
    /\ args \in SeqsUpTo(ArgValues, MaxArgs)
    /\ env \in EnvStates
    /\ buildResult = NotCalled
    /\ SearchIdle
    /\ RunIdle

Build ==
    /\ buildResult = NotCalled
    /\ buildResult' = BuildOf(args, env)
    /\ UNCHANGED <<args, env>>
    /\ UNCHANGED <<searchVars, runVars>>

NextBuild == Build

SpecBuild == InitBuild /\ [][NextBuild]_vars

----------------------------------------------------------------------------
(* search and search_case_insensitive applied to every bounded input *)

InitSearch ==
    /\ query \in SeqsUpTo(QueryChars, MaxQueryLen)
    /\ contents \in SeqsUpTo(SearchChars, MaxContentsLen)
    /\ called = {}
    /\ results = <<>>
    /\ resultsCI = <<>>
    /\ BuildIdle
    /\ RunIdle

CallSearch ==
    /\ "search" \notin called
    /\ called' = called \cup {"search"}
    /\ results' = search(query, contents)
    /\ UNCHANGED <<query, contents, resultsCI>>
    /\ UNCHANGED <<buildVars, runVars>>

CallSearchCaseInsensitive ==
    /\ "search_case_insensitive" \notin called
    /\ called' = called \cup {"search_case_insensitive"}
    /\ resultsCI' = search_case_insensitive(query, contents)
    /\ UNCHANGED <<query, contents, results>>
    /\ UNCHANGED <<buildVars, runVars>>

NextSearch == CallSearch \/ CallSearchCaseInsensitive

SpecSearch == InitSearch /\ [][NextSearch]_vars

----------------------------------------------------------------------------
(* run applied to every bounded Config and file *)

InitRun ==
    /\ config \in [query : SeqsUpTo(QueryChars, MaxQueryLen),
                   file_path : FilePaths,
                   ignore_case : BOOLEAN]
    /\ \E f \in {Unreadable} \cup
                {Readable(t) : t \in SeqsUpTo(SearchChars, MaxFileLen)} :
          fs = [p \in FilePaths |-> IF p = PoemPath THEN f ELSE Unreadable]
    /\ pc = "start"
    /\ runResults = <<>>
    /\ cursor = 0
    /\ stdout = <<>>
    /\ runReturn = "none"
    /\ BuildIdle
    /\ SearchIdle

\* let contents = fs::read_to_string(config.file_path)?;  -- the error path
RunReadFails ==
    /\ pc = "start"
    /\ ~fs[config.file_path].readable
    /\ runReturn' = "Err"
    /\ pc' = "done"
    /\ UNCHANGED <<config, fs, runResults, cursor, stdout>>
    /\ UNCHANGED <<buildVars, searchVars>>

\* ... the success path, followed by the dispatch to one of the searches
RunReadAndSearch ==
    /\ pc = "start"
    /\ fs[config.file_path].readable
    /\ runResults' = RunDispatch(config, fs[config.file_path].text)
    /\ cursor' = 1
    /\ pc' = "print"
    /\ UNCHANGED <<config, fs, stdout, runReturn>>
    /\ UNCHANGED <<buildVars, searchVars>>

\* one iteration of `for line in results { println!("{line}"); }`
RunPrintLine ==
    /\ pc = "print"
    /\ cursor <= Len(runResults)
    /\ stdout' = Println(stdout, runResults[cursor])
    /\ cursor' = cursor + 1
    /\ UNCHANGED <<config, fs, pc, runResults, runReturn>>
    /\ UNCHANGED <<buildVars, searchVars>>

\* Ok(())
RunReturnOk ==
    /\ pc = "print"
    /\ cursor > Len(runResults)
    /\ runReturn' = "Ok"
    /\ pc' = "done"
    /\ UNCHANGED <<config, fs, runResults, cursor, stdout>>
    /\ UNCHANGED <<buildVars, searchVars>>

NextRun == RunReadFails \/ RunReadAndSearch \/ RunPrintLine \/ RunReturnOk

SpecRun == InitRun /\ [][NextRun]_vars

----------------------------------------------------------------------------
(* Vocabulary of the properties *)

\* q occurs in line between some two cut points.
HasSubstring(line, q) ==
    \E a \in 0..Len(line) : \E b \in a..Len(line) : SubSeq(line, a + 1, b) = q

\* The k-th smallest member of a set of indices.
KthOf(idx, k) == CHOOSE i \in idx : Cardinality({j \in idx : j < i}) = k - 1

\* res is exactly the elements of L at the indices idx, in increasing order
\* of index, each once.
IsSelection(res, L, idx) ==
    /\ Len(res) = Cardinality(idx)
    /\ \A k \in 1..Len(res) : res[k] = L[KthOf(idx, k)]

\* s can be obtained from t by deleting elements.
RECURSIVE IsSubsequence(_, _)
IsSubsequence(s, t) ==
    IF s = <<>> THEN TRUE
    ELSE IF t = <<>> THEN FALSE
    ELSE IF Head(s) = Head(t) THEN IsSubsequence(Tail(s), Tail(t))
    ELSE IsSubsequence(s, Tail(t))

\* The positions of the line feeds of a text.
LFPositions(c) == {i \in 1..Len(c) : c[i] = LF}

\* The lines of a text, stated from the positions of its line feeds: line k
\* starts after line feed k-1 and ends before line feed k (or at the end of
\* the text); a carriage return right before the closing line feed belongs to
\* the terminator; text after the last line feed is a line only if not empty.
LineCount(c) ==
    IF c = <<>> \/ c[Len(c)] = LF THEN Cardinality(LFPositions(c))
    ELSE Cardinality(LFPositions(c)) + 1

LineAt(c, k) ==
    LET nlf == Cardinality(LFPositions(c))
        from == IF k = 1 THEN 1 ELSE KthOf(LFPositions(c), k - 1) + 1
        closed == k <= nlf
        to == IF closed THEN KthOf(LFPositions(c), k) - 1 ELSE Len(c)
        crlf == closed /\ to >= from /\ c[to] = CR
    IN SubSeq(c, from, IF crlf THEN to - 1 ELSE to)

LinesByTerminators(c) == [k \in 1..LineCount(c) |-> LineAt(c, k)]

\* The arguments after the program name that are not the flag.
NonFlagTrailing(a) ==
    IF a = <<>> THEN <<>>
    ELSE SelectSeq(Tail(a), LAMBDA x : x # DashI)

BuildCalled == buildResult # NotCalled

----------------------------------------------------------------------------
(* Properties *)

\* C1: search(query, contents) is exactly the lines of contents, in file
\* order, each once, that contain query as a contiguous substring, character
\* case respected.
C1_SearchExactSubsequence ==
    "search" \in called =>
        LET L == Lines(contents)
        IN IsSelection(results, L,
                       {i \in 1..Len(L) : HasSubstring(L[i], query)})

\* C1 witness: of two lines search dropped the first, which differs from the
\* query only in letter case, and kept the second.
C1_Witness ==
    /\ "search" \in called
    /\ query # <<>>
    /\ LET L == Lines(contents)
       IN /\ Len(L) = 2
          /\ results = <<L[2]>>
          /\ L[1] # query
          /\ ToLowercase(L[1]) = ToLowercase(query)

\* C2: search_case_insensitive(query, contents) is exactly the lines of
\* contents, in file order, whose lowercased form contains the lowercased
\* query, and each returned line is the original text of the line.
C2_CaseInsensitiveExactSubsequence ==
    "search_case_insensitive" \in called =>
        LET L == Lines(contents)
        IN IsSelection(resultsCI, L,
                       {i \in 1..Len(L) :
                          HasSubstring(ToLowercase(L[i]), ToLowercase(query))})

\* C2 witness: a query with a capital letter matched a line that is returned
\* with its capital letters.
C2_Witness ==
    /\ "search_case_insensitive" \in called
    /\ ToLowercase(query) # query
    /\ \E k \in 1..Len(resultsCI) :
          /\ ToLowercase(resultsCI[k]) # resultsCI[k]
          /\ ~HasSubstring(resultsCI[k], query)
    /\ Len(resultsCI) < Len(Lines(contents))

\* C3: when build succeeds and some argument after the program name is
\* exactly "-i", the Config has ignore_case = true.
C3_FlagAnywhereSetsIgnoreCase ==
    (/\ buildResult.ok
     /\ \E i \in 2..Len(args) : args[i] = DashI)
        => buildResult.config.ignore_case

\* C4: when build succeeds, query is the first argument at position >= 1
\* that is not "-i" and file_path is the second, whatever element 0 is.
C4_PositionalsAfterProgramName ==
    buildResult.ok =>
        LET kept == NonFlagTrailing(args)
        IN /\ Len(kept) >= 2
           /\ buildResult.config.query = kept[1]
           /\ buildResult.config.file_path = kept[2]

\* C5: build fails with the missing-query error exactly when no non-flag
\* argument follows the program name, with the missing-file-path error
\* exactly when one does, and succeeds when two or more do.
C5_ErrorExactlyWhenTooFew ==
    BuildCalled =>
        LET n == Len(NonFlagTrailing(args))
        IN /\ (~buildResult.ok /\ buildResult.err = ErrQuery) <=> n = 0
           /\ (~buildResult.ok /\ buildResult.err = ErrFilePath) <=> n = 1
           /\ buildResult.ok <=> n >= 2

\* C6: without any "-i" among the arguments, a successful build returns
\* ignore_case = true iff IGNORE_CASE exists in the environment, whatever
\* its value.
C6_EnvPresenceDecides ==
    (/\ buildResult.ok
     /\ \A i \in 1..Len(args) : args[i] # DashI)
        => (buildResult.config.ignore_case <=> env # "unset")

\* C7 as stated: every Config of a successful build has a non-empty query
\* and a non-empty file_path.
C7_FieldsNonEmpty ==
    buildResult.ok =>
        /\ buildResult.config.query # <<>>
        /\ buildResult.config.file_path # <<>>

\* C7 amended: every Config of a successful build on an argument list
\* without empty-string arguments has a non-empty query and file_path.
C7_FieldsNonEmptyWithoutEmptyArgs ==
    (/\ buildResult.ok
     /\ \A i \in 1..Len(args) : args[i] # <<>>)
        => /\ buildResult.config.query # <<>>
           /\ buildResult.config.file_path # <<>>

\* C7 witness: a successful build, with the flag among the arguments, on an
\* argument list without empty strings.
C7_Witness ==
    /\ buildResult.ok
    /\ \A i \in 1..Len(args) : args[i] # <<>>
    /\ \E i \in 1..Len(args) : args[i] = DashI
    /\ buildResult.config.query # buildResult.config.file_path

\* C8: when the file can be read, run returns Ok and its writes are exactly
\* the lines of search_case_insensitive (ignore_case) or search (otherwise),
\* one line per write, in order; while printing, the writes so far are a
\* prefix of that.
C8_RunPrintsSearchResults ==
    LET file == fs[config.file_path]
        expected == IF config.ignore_case
                    THEN search_case_insensitive(config.query, file.text)
                    ELSE search(config.query, file.text)
    IN /\ (pc = "done" /\ file.readable) =>
              /\ runReturn = "Ok"
              /\ stdout = [k \in 1..Len(expected) |-> Append(expected[k], LF)]
       /\ (pc = "print") =>
              /\ Len(stdout) <= Len(expected)
              /\ \A k \in 1..Len(stdout) : stdout[k] = Append(expected[k], LF)

\* C8 witness: a case-insensitive run that returned Ok after writing two
\* lines, of which the case-sensitive search would have found fewer.
C8_Witness ==
    /\ pc = "done"
    /\ runReturn = "Ok"
    /\ config.ignore_case
    /\ Len(stdout) = 2
    /\ Len(search(config.query, fs[config.file_path].text)) < 2

\* C9: the lines both functions filter are the runs of contents between line
\* terminators, terminators stripped: with the empty query both return
\* exactly those lines (no extra line after a final terminator, an empty
\* line between two terminators kept), and for empty contents both return
\* nothing for every query.
C9_LinesSplitAtTerminators ==
    /\ ("search" \in called) =>
          /\ \A k \in 1..Len(results) : LF \notin {results[k][j] : j \in 1..Len(results[k])}
          /\ (query = <<>>) => results = LinesByTerminators(contents)
          /\ (contents = <<>>) => results = <<>>
    /\ ("search_case_insensitive" \in called) =>
          /\ \A k \in 1..Len(resultsCI) : LF \notin {resultsCI[k][j] : j \in 1..Len(resultsCI[k])}
          /\ (query = <<>>) => resultsCI = LinesByTerminators(contents)
          /\ (contents = <<>>) => resultsCI = <<>>

\* C9 witness: with the empty query, contents ending in a terminator gave
\* two lines to both functions, one of them the empty line between two
\* terminators.
C9_Witness ==
    /\ called = {"search", "search_case_insensitive"}
    /\ query = <<>>
    /\ Len(contents) >= 3
    /\ contents[Len(contents)] = LF
    /\ contents[Len(contents) - 1] = LF
    /\ Len(results) = 2
    /\ results[2] = <<>>
    /\ resultsCI = results

\* C10: the result of search is a subsequence of the result of
\* search_case_insensitive.
C10_SensitiveWithinInsensitive ==
    called = {"search", "search_case_insensitive"}
        => IsSubsequence(results, resultsCI)

====
